---- MODULE Spec2Model ----
(***************************************************************************)
(* varnishbackend_exporter: the Varnish CLI client (ReadResponse, Send,    *)
(* CommandForSuccess), the connect / authenticate / poll loop of main, the *)
(* aggregation of a backend.list body and the gauge vector that the        *)
(* metrics handler of httpServer reads concurrently.                       *)
(*                                                                         *)
(* Text is a sequence of items: an item is one whitespace character (SP,   *)
(* NL) or one maximal run of non-whitespace characters (a word).  The      *)
(* length of a text is its number of items.                                *)
(***************************************************************************)
EXTENDS Integers, Sequences, FiniteSets, TLC

VARIABLES
    pc,             \* position of the main goroutine in main's loops
    first,          \* main: first
    conn,           \* main: conn of the current iteration (0: nil), a descriptor
    open,           \* the descriptors of the connections dialled and not closed
    dialled,        \* net.DialTCP was called at least once
    sleptFor,       \* seconds slept by the most recent step of the main goroutine
    directorRegexp, \* the -directorre pattern ("" when directorRegexp is nil)
    resetBackends,  \* the -varnish.reset flag
    challenge,      \* main: challenge
    lastSent,       \* the command line most recently written, with its connection
    greeted,        \* the current connection's greeting was read with code 107
    authed,         \* the current connection's auth command returned success
    authsSent,      \* auth commands written on the current connection
    code,           \* main: code of line 174, the greeting's (0 before it is read)
    greetResp,      \* main: *resp of line 174, the greeting's body
    listSent,       \* a backend.list was written on the current connection
    err,            \* main: err of line 192 is not nil
    listingCode,    \* main: code of line 197, the listing's (0 before it is read)
    pubCount,       \* times the listing read last was published in whole
    resp,           \* main: *resp of the listing being aggregated
    healthy,        \* main: healthy
    sick,           \* main: sick
    labelhealthy,   \* main: labelhealthy
    labelsick,      \* main: labelsick
    labelall,       \* main: labelall
    pending,        \* keys of labelall the range loop has not visited yet
    k,              \* the range loop's k
    prombackends,   \* the gauge vector: label values -> value
    published,      \* the gauge vector as the last completed poll cycle left it
    scrapedWhole,   \* the metrics handler's last collection read what a completed
                    \* poll cycle left (TRUE before the first collection)
    panicMsg,       \* the runtime panic that ended the process ("" while it runs)
    rrFrame,        \* ReadResponse alone: what the connection delivers to the call
    rrCalled,       \* ReadResponse alone: the call was made
    rrOut,          \* ReadResponse alone: what the call handed back
    cmdWriteOk,     \* CommandForSuccess alone: the write of Send succeeds
    cmdCalled,      \* CommandForSuccess alone: the call was made
    cmdOut          \* CommandForSuccess alone: what the call handed back

vars == <<pc, first, conn, open, dialled, sleptFor, directorRegexp, resetBackends,
          challenge, lastSent, greeted, authed, authsSent, listSent, code,
          greetResp, err, listingCode, pubCount, resp,
          healthy, sick, labelhealthy, labelsick, labelall, pending, k,
          prombackends, published, scrapedWhole, panicMsg, rrFrame, rrCalled, rrOut,
          cmdWriteOk, cmdCalled, cmdOut>>

mainVars == <<pc, first, conn, open, dialled, sleptFor, directorRegexp, resetBackends,
              challenge, lastSent, greeted, authed, authsSent, listSent, code,
              greetResp, err, listingCode, pubCount, resp,
              healthy, sick, labelhealthy, labelsick, labelall, pending, k,
              prombackends, published, scrapedWhole, panicMsg>>

(***************************************************************************)
(* Bounds of the model.                                                    *)
(***************************************************************************)
MaxOpen == 2
MaxLines == 1
MaxLen == 3

(***************************************************************************)
(* Program constants.                                                      *)
(***************************************************************************)
AuthPromptCode == 107
OkCode == 200
FailCode == -1
RateLimitSeconds == 5
DefaultInterval == 15

SP == " "
NL == "\n"

Min(a, b) == IF a < b THEN a ELSE b

(***************************************************************************)
(* What a connection delivers to one ReadResponse call: the outcome of     *)
(* Fscanf on the header line (scanErr, the number of items scanned, the    *)
(* two integers) and the bytes the following Read finds (data), or the     *)
(* Read's error.                                                           *)
(***************************************************************************)
Frame(st, len, data) ==
    [scanErr |-> FALSE, headers |-> 2, status |-> st, length |-> len,
     data |-> data, readErr |-> FALSE]

\* A well-formed response: the declared length, the body, the terminator.
GoodFrame(st, body) == Frame(st, Len(body), body \o <<NL>>)

\* The same response cut short: the Read returns one byte less than asked.
ShortFrame(st, body) == Frame(st, Len(body), body)

ScanErrFrame ==
    [scanErr |-> TRUE, headers |-> 0, status |-> 0, length |-> 0,
     data |-> <<>>, readErr |-> FALSE]

ReadErrFrame(st, len) ==
    [scanErr |-> FALSE, headers |-> 2, status |-> st, length |-> len,
     data |-> <<>>, readErr |-> TRUE]

\* What ReadResponse hands back: (code, response), or a runtime panic.
Failure == [code |-> FailCode, isNil |-> TRUE, body |-> <<>>, panic |-> ""]
Returned(st, body) == [code |-> st, isNil |-> FALSE, body |-> body, panic |-> ""]
Panicked(msg) == [code |-> FailCode, isNil |-> TRUE, body |-> <<>>, panic |-> msg]

\* VarnishWrapper.ReadResponse.  make([]byte, length+1) panics for a negative
\* size; a Read into an empty buffer returns (0, nil), so that length = -1
\* passes the l != length+1 test and buf[0:len(buf)-1] panics.  Otherwise the
\* single Read returns the bytes that are there, at most length+1 of them.
ReadResponse(f) ==
    IF f.scanErr THEN Failure
    ELSE IF f.headers # 2 THEN Failure
    ELSE IF f.length + 1 < 0 THEN Panicked("makeslice: len out of range")
    ELSE IF f.length + 1 = 0 THEN Panicked("slice bounds out of range")
    ELSE IF f.readErr THEN Failure
    ELSE IF Min(Len(f.data), f.length + 1) # f.length + 1 THEN Failure
    ELSE Returned(f.status, SubSeq(f.data, 1, f.length))

(***************************************************************************)
(* Text helpers of the listing parser.                                     *)
(***************************************************************************)
\* bufio.Scanner with the default ScanLines: the lines between newlines; a
\* last line without newline is a line when it is not empty.
RECURSIVE ScanLines(_, _)
ScanLines(s, cur) ==
    IF s = <<>> THEN (IF cur = <<>> THEN <<>> ELSE <<cur>>)
    ELSE IF Head(s) = NL THEN <<cur>> \o ScanLines(Tail(s), <<>>)
    ELSE ScanLines(Tail(s), Append(cur, Head(s)))

\* strings.Split(s, "\n")[0]
RECURSIVE FirstLine(_)
FirstLine(s) ==
    IF s = <<>> \/ Head(s) = NL THEN <<>> ELSE <<Head(s)>> \o FirstLine(Tail(s))

\* A variant of HasPrefix that compares the whole line.
HasPrefixWholeLine(t, p) == t = p

\* strings.HasPrefix
HasPrefix(t, p) == Len(t) >= Len(p) /\ SubSeq(t, 1, Len(p)) = p

\* strings.Fields
Fields(t) == SelectSeq(t, LAMBDA c : c # SP /\ c # NL)

HeaderPrefix == <<"Backend", SP, "name", SP>>

\* m[key] of a Go map[string]int: the zero value for a missing key.
MapGet(m, key) == IF key \in DOMAIN m THEN m[key] ELSE 0
MapPut(m, key, v) == [x \in DOMAIN m \cup {key} |-> IF x = key THEN v ELSE m[x]]
EmptyMap == [x \in {} |-> 0]

(***************************************************************************)
(* The director pattern.  A backend name is read as its segments between   *)
(* underscores; the patterns are the README's example, ".*_([^_]+)$", and  *)
(* one without a capture group, "_fe$".                                    *)
(***************************************************************************)
ReSuffix == ".*_([^_]+)$"
ReNoGroup == "_fe$"

Names == {"web1_fe", "plain"}

Segments(name) ==
    IF name = "web1_fe" THEN <<"web1", "fe">> ELSE <<name>>

\* regexp.FindStringSubmatch: <<>> for nil (no match), otherwise the match
\* followed by the text of each capture group.
FindStringSubmatch(re, name) ==
    LET segs == Segments(name)
        last == segs[Len(segs)]
    IN  IF re = ReSuffix
        THEN IF Len(segs) >= 2 /\ last # "" THEN <<name, last>> ELSE <<>>
        ELSE IF Len(segs) >= 2 /\ last = "fe" THEN <<"_fe">> ELSE <<>>

\* A variant of DirectorLabel that labels with the whole match.
DirectorLabelWholeMatch(re, name) ==
    LET m == FindStringSubmatch(re, name)
    IN  IF m # <<>> THEN m[1] ELSE "unknown"

\* main, lines 222-228: lbl.
DirectorLabel(re, name) ==
    LET m == FindStringSubmatch(re, name)
    IN  IF m # <<>> /\ Len(m) > 1 THEN m[2] ELSE "unknown"

\* A variant of IsHealthy that accepts either signal.
IsHealthyEither(fields) ==
    fields[2] # "sick" \/ (Len(fields) >= 3 /\ fields[3] = "Healthy")

\* main, lines 230 and 236: fields[1] != "sick" && fields[2] == "Healthy".
IsHealthy(fields) == fields[2] # "sick" /\ fields[3] = "Healthy"

\* Whether evaluating that condition indexes past the end of fields: fields[1]
\* is read first, fields[2] only when fields[1] is not "sick".
ClassifyPanics(fields) ==
    Len(fields) < 2 \/ (fields[2] # "sick" /\ Len(fields) < 3)

IndexPanic == "index out of range"

\* The locals of one pass over the listing, before the first line.
AggStart ==
    [healthy |-> 0, sick |-> 0, labelhealthy |-> EmptyMap, labelsick |-> EmptyMap,
     labelall |-> EmptyMap, panic |-> ""]

\* main, lines 215-241: the body of the scanner loop for the line t.
AggLine(re, acc, t) ==
    IF acc.panic # "" THEN acc
    ELSE IF HasPrefix(t, HeaderPrefix) THEN acc
    ELSE LET fields == Fields(t) IN
         IF re # ""
         THEN IF Len(fields) < 1 THEN [acc EXCEPT !.panic = IndexPanic]
              ELSE LET lbl == DirectorLabel(re, fields[1])
                       seen == [acc EXCEPT !.labelall = MapPut(@, lbl, 1)]
                   IN  IF ClassifyPanics(fields)
                       THEN [seen EXCEPT !.panic = IndexPanic]
                       ELSE IF IsHealthy(fields)
                       THEN [seen EXCEPT !.labelhealthy =
                                 MapPut(@, lbl, MapGet(@, lbl) + 1)]
                       ELSE [seen EXCEPT !.labelsick =
                                 MapPut(@, lbl, MapGet(@, lbl) + 1)]
         ELSE IF ClassifyPanics(fields) THEN [acc EXCEPT !.panic = IndexPanic]
              ELSE IF IsHealthy(fields)
              THEN [acc EXCEPT !.healthy = @ + 1]
              ELSE [acc EXCEPT !.sick = @ + 1]

RECURSIVE AggLines(_, _, _)
AggLines(re, acc, lines) ==
    IF lines = <<>> THEN acc
    ELSE AggLines(re, AggLine(re, acc, Head(lines)), Tail(lines))

\* main, lines 202-242: the scanner over *resp and the loop over its lines.
Aggregate(re, body) == AggLines(re, AggStart, ScanLines(body, <<>>))

(***************************************************************************)
(* The responses the model lets Varnish send.                              *)
(***************************************************************************)
StatusTokens == {"healthy", "sick"}
HealthTokens == {"Healthy", "Sick"}

HeaderLine == <<"Backend", SP, "name", SP, "Admin", SP, "Health">>

RecordLines == {<<n, SP, s, SP, h>> : n \in Names, s \in StatusTokens, h \in HealthTokens}

\* Lines of fewer than three fields: empty, a name alone, a name and a status.
ShortLines == {<<>>, <<"plain">>, <<"web1_fe", SP, "sick">>, <<"plain", SP, "healthy">>}

ListingLines == RecordLines \cup ShortLines

RECURSIVE JoinLines(_)
JoinLines(lines) ==
    IF lines = <<>> THEN <<>> ELSE Head(lines) \o <<NL>> \o JoinLines(Tail(lines))

ListingBodies ==
    {JoinLines(<<HeaderLine>> \o ls) :
        ls \in UNION {[1..n -> ListingLines] : n \in 0..MaxLines}}

Challenges == {"ch1", "ch2"}

GreetingBody(c) == <<c, NL, NL, "Authentication", SP, "required.">>

GreetingFrames ==
    {GoodFrame(AuthPromptCode, GreetingBody(c)) : c \in Challenges}
    \cup {GoodFrame(OkCode, <<"hello">>), ShortFrame(AuthPromptCode, GreetingBody("ch1")),
          ScanErrFrame, ReadErrFrame(AuthPromptCode, 6), Frame(AuthPromptCode, -1, <<>>)}

AuthFrames ==
    {GoodFrame(OkCode, <<"ok">>), GoodFrame(AuthPromptCode, GreetingBody("ch2")),
     ScanErrFrame, ShortFrame(OkCode, <<"ok">>), Frame(OkCode, -2, <<>>)}

ListFrames ==
    {GoodFrame(OkCode, b) : b \in ListingBodies}
    \cup {GoodFrame(400, <<"Unknown", SP, "request.">>), ScanErrFrame,
          ShortFrame(OkCode, JoinLines(<<HeaderLine>>)), ReadErrFrame(OkCode, 8),
          Frame(OkCode, -1, <<>>), Frame(OkCode, -2, <<>>)}

(***************************************************************************)
(* Send and CommandForSuccess.                                             *)
(***************************************************************************)
RECURSIVE SpaceJoin(_)
SpaceJoin(buf) ==
    IF Len(buf) <= 1 THEN buf ELSE <<Head(buf), SP>> \o SpaceJoin(Tail(buf))

\* VarnishWrapper.Send: the bytes written for the command str with args.
SendLine(str, args) == SpaceJoin(<<str>> \o args) \o <<NL>>

\* A variant of CommandForSuccess that reads the response whatever Send returned.
CommandForSuccessIgnoreErr(writeOk, f) ==
    LET r == ReadResponse(f)
    IN  [ok |-> r.panic = "" /\ r.code = OkCode, read |-> TRUE, panic |-> r.panic]

\* VarnishWrapper.CommandForSuccess, given whether the write succeeds and what
\* the connection then delivers: the result, whether a response was read, and
\* the panic of ReadResponse if it panicked.
CommandForSuccess(writeOk, f) ==
    IF ~writeOk THEN [ok |-> FALSE, read |-> FALSE, panic |-> ""]
    ELSE LET r == ReadResponse(f)
         IN  [ok |-> r.panic = "" /\ r.code = OkCode, read |-> TRUE, panic |-> r.panic]

\* Before CommandForSuccess is called.
NotCalled == [ok |-> FALSE, read |-> FALSE, panic |-> ""]

\* The secret file's content, read once at startup.
Secret == <<"s3cr3t", NL>>

\* hex.EncodeToString(sha256.Sum256(text)), kept symbolic: one word.
HexSha256(text) == [hexsha256 |-> text]

\* A variant of AuthText that hashes the secret before the challenge.
AuthTextSecretFirst(ch) == Secret \o ch \o <<NL>>

\* main, line 180: the text that is hashed.
AuthText(ch) == ch \o <<NL>> \o Secret \o ch \o <<NL>>

(***************************************************************************)
(* The gauge vector.                                                       *)
(***************************************************************************)
Grouped == directorRegexp # ""

\* prometheus.Labels of one series.
Series(state, director) == IF Grouped THEN <<state, director>> ELSE <<state>>

\* A variant of GaugeSet that leaves a series alone when the count is 0.
GaugeSetNonZero(vec, labels, v) == IF v = 0 THEN vec ELSE MapPut(vec, labels, v)

\* prombackends.With(labels).Set(v)
GaugeSet(vec, labels, v) == MapPut(vec, labels, v)

(***************************************************************************)
(* The main goroutine, one action per step of main's loops.                *)
(***************************************************************************)
NoLine == [conn |-> 0, line |-> <<>>]

Init ==
    /\ pc = "loop_top"
    /\ first = TRUE
    /\ conn = 0
    /\ open = {}
    /\ dialled = FALSE
    /\ sleptFor = 0
    /\ directorRegexp \in {"", ReSuffix, ReNoGroup}
    /\ resetBackends \in BOOLEAN
    /\ challenge = <<>>
    /\ lastSent = NoLine
    /\ greeted = FALSE
    /\ authed = FALSE
    /\ authsSent = 0
    /\ listSent = FALSE
    /\ code = 0
    /\ greetResp = <<>>
    /\ err = FALSE
    /\ listingCode = 0
    /\ pubCount = 0
    /\ resp = <<>>
    /\ healthy = 0
    /\ sick = 0
    /\ labelhealthy = EmptyMap
    /\ labelsick = EmptyMap
    /\ labelall = EmptyMap
    /\ pending = {}
    /\ k = ""
    /\ prombackends = EmptyMap
    /\ published = EmptyMap
    /\ scrapedWhole = TRUE
    /\ panicMsg = ""
    /\ rrFrame = ScanErrFrame
    /\ rrCalled = FALSE
    /\ rrOut = Failure
    /\ cmdWriteOk = FALSE
    /\ cmdCalled = FALSE
    /\ cmdOut = NotCalled

config == <<directorRegexp, resetBackends>>
readVars == <<rrFrame, rrCalled, rrOut, cmdWriteOk, cmdCalled, cmdOut>>
connVars == <<conn, open, dialled>>
handshakeVars == <<challenge, lastSent, greeted, authed, authsSent, listSent, code,
                   greetResp>>
pollVars == <<err, listingCode, pubCount>>
cycleVars == <<resp, healthy, sick, labelhealthy, labelsick, labelall, pending, k>>
gaugeVars == <<prombackends, published>>

\* A variant of RateLimit that never sleeps.
RateLimitNone(isFirst) == 0

\* main, lines 159-165: the seconds slept before connecting.
RateLimit(isFirst) == IF isFirst THEN 0 ELSE RateLimitSeconds

\* A variant of GreetingOk that accepts any greeting.
GreetingOkAny(c) == TRUE

\* main, line 175: the greeting is the authentication prompt.
GreetingOk(c) == c = AuthPromptCode

\* A variant of AfterAuth that sends auth again when it was refused.
AfterAuthRetry(ok) == IF ok THEN "poll_send" ELSE "auth"

\* A variant of AfterAuth that polls whatever the auth command returned.
AfterAuthAlwaysPoll(ok) == "poll_send"

\* main, lines 181-184: where main continues after the auth command.
AfterAuth(ok) == IF ok THEN "poll_send" ELSE "loop_top"

\* A variant of AfterSend that goes on to read whatever Send returned.
AfterSendIgnoreErr(failed) == "poll_read"

\* main, lines 192-195: where main continues after Send("backend.list").
AfterSend(failed) == IF failed THEN "close" ELSE "poll_read"

\* A variant of ListingOk that accepts any answer to backend.list.
ListingOkAny(c) == TRUE

\* main, line 198: the listing was answered with 200.
ListingOk(c) == c = OkCode

\* A variant of AfterReset that never clears the vector.
AfterResetNever(vec) == vec

\* main, lines 244-246: the gauge vector after the reset-on-scan test.
AfterReset(vec) == IF resetBackends THEN EmptyMap ELSE vec

\* A runtime panic ends the process.
Crash(msg) ==
    /\ pc' = "crashed"
    /\ panicMsg' = msg
    /\ sleptFor' = 0

\* main, lines 157-165: the head of the outer loop.
LoopTop ==
    /\ pc = "loop_top"
    /\ first' = FALSE
    /\ sleptFor' = RateLimit(first)
    /\ pc' = "dial"
    /\ UNCHANGED <<connVars, config, handshakeVars, pollVars, cycleVars, gaugeVars,
                   scrapedWhole, panicMsg, readVars>>

\* The descriptor a successful dial gets: the lowest one that is free.
FreeDescriptor == CHOOSE d \in 1..MaxOpen : d \notin open /\ \A e \in 1..(d - 1) : e \in open

\* main, lines 166-173: net.DialTCP.  It fails when the peer refuses, and it
\* can only fail once the process holds MaxOpen descriptors.
Dial ==
    /\ pc = "dial"
    /\ dialled' = TRUE
    /\ sleptFor' = 0
    /\ greeted' = FALSE /\ authed' = FALSE /\ authsSent' = 0 /\ listSent' = FALSE
    /\ code' = 0 /\ greetResp' = <<>>
    /\ err' = FALSE /\ listingCode' = 0 /\ pubCount' = 0
    /\ \E ok \in {b \in BOOLEAN : b => Cardinality(open) < MaxOpen} :
          IF ok
          THEN conn' = FreeDescriptor /\ open' = open \cup {conn'} /\ pc' = "greeting"
          ELSE conn' = 0 /\ open' = open /\ pc' = "loop_top"
    /\ UNCHANGED <<first, config, challenge, lastSent, cycleVars, gaugeVars, scrapedWhole,
                   panicMsg, readVars>>

\* main, lines 174-179: the greeting.
Greeting ==
    /\ pc = "greeting"
    /\ \E f \in GreetingFrames :
          LET r == ReadResponse(f) IN
          IF r.panic # ""
          THEN Crash(r.panic) /\ UNCHANGED <<challenge, greeted, code, greetResp>>
          ELSE /\ panicMsg' = panicMsg
               /\ sleptFor' = 0
               /\ code' = r.code
               /\ greetResp' = r.body
               /\ greeted' = (r.code = AuthPromptCode)
               /\ IF ~GreetingOk(r.code)
                  THEN pc' = "loop_top" /\ UNCHANGED challenge
                  ELSE /\ challenge' = FirstLine(r.body)
                       /\ pc' = "auth"
    /\ UNCHANGED <<first, connVars, config, lastSent, authed, authsSent, listSent,
                   pollVars, cycleVars, gaugeVars, scrapedWhole, readVars>>

\* main, lines 180-184: the auth command.  challenge and *resp are not read
\* after it.
Auth ==
    /\ pc = "auth"
    /\ \E writeOk \in BOOLEAN, f \in AuthFrames :
          LET c == CommandForSuccess(writeOk, f) IN
          /\ IF writeOk
             THEN /\ lastSent' = [conn |-> conn,
                                  line |-> SendLine("auth", <<HexSha256(AuthText(challenge))>>)]
                  /\ authsSent' = authsSent + 1
             ELSE UNCHANGED <<lastSent, authsSent>>
          /\ IF c.panic # ""
             THEN Crash(c.panic) /\ authed' = authed
             ELSE /\ panicMsg' = panicMsg
                  /\ sleptFor' = 0
                  /\ authed' = c.ok
                  /\ pc' = AfterAuth(c.ok)
    /\ challenge' = <<>>
    /\ greetResp' = <<>>
    /\ UNCHANGED <<first, connVars, config, greeted, listSent, code, pollVars, cycleVars,
                   gaugeVars, scrapedWhole, readVars>>

\* main, lines 191-195: Send("backend.list").
PollSend ==
    /\ pc = "poll_send"
    /\ sleptFor' = 0
    /\ \E writeOk \in BOOLEAN :
          /\ IF writeOk
             THEN /\ lastSent' = [conn |-> conn, line |-> SendLine("backend.list", <<>>)]
                  /\ listSent' = TRUE
             ELSE UNCHANGED <<lastSent, listSent>>
          /\ err' = ~writeOk
          /\ pc' = AfterSend(~writeOk)
    /\ UNCHANGED <<first, connVars, config, challenge, greeted, authed, authsSent, code,
                   greetResp, listingCode, pubCount, cycleVars, gaugeVars, scrapedWhole,
                   panicMsg, readVars>>

\* main, lines 197-242: the listing is read and aggregated.
PollRead ==
    /\ pc = "poll_read"
    /\ \E f \in ListFrames :
          LET r == ReadResponse(f) IN
          IF r.panic # ""
          THEN Crash(r.panic) /\ UNCHANGED <<cycleVars, listingCode>>
          ELSE IF ~ListingOk(r.code)
          THEN /\ pc' = "close"
               /\ sleptFor' = 0
               /\ listingCode' = r.code
               /\ UNCHANGED <<cycleVars, panicMsg>>
          ELSE LET a == Aggregate(directorRegexp, r.body) IN
               /\ listingCode' = r.code
               /\ resp' = r.body
               /\ healthy' = a.healthy
               /\ sick' = a.sick
               /\ labelhealthy' = a.labelhealthy
               /\ labelsick' = a.labelsick
               /\ labelall' = a.labelall
               /\ UNCHANGED <<pending, k>>
               /\ IF a.panic # ""
                  THEN Crash(a.panic)
                  ELSE pc' = "reset" /\ sleptFor' = 0 /\ panicMsg' = panicMsg
    /\ pubCount' = 0
    /\ UNCHANGED <<first, connVars, config, handshakeVars, err, gaugeVars, scrapedWhole,
                   readVars>>

\* A variant of Published that sends the next backend.list without sleeping.
PublishedNoSleep(vec, left) ==
    /\ pc' = IF left = {} THEN "poll_send" ELSE "set_healthy"
    /\ published' = IF left = {} THEN vec ELSE published
    /\ pubCount' = IF left = {} THEN pubCount + 1 ELSE pubCount

\* Where main continues once a gauge write is done, and what the cycle has
\* then published.
Published(vec, left) ==
    /\ pc' = IF left = {} THEN "interval_sleep" ELSE "set_healthy"
    /\ published' = IF left = {} THEN vec ELSE published
    /\ pubCount' = IF left = {} THEN pubCount + 1 ELSE pubCount

\* main, lines 244-246: prombackends.Reset() under -varnish.reset.
ResetStep ==
    /\ pc = "reset"
    /\ sleptFor' = 0
    /\ prombackends' = AfterReset(prombackends)
    /\ pending' = IF Grouped THEN DOMAIN labelall ELSE {}
    /\ IF Grouped /\ DOMAIN labelall = {}
       THEN Published(prombackends', {})
       ELSE pc' = "set_healthy" /\ published' = published /\ pubCount' = pubCount
    /\ UNCHANGED <<first, connVars, config, handshakeVars, err, listingCode, resp, healthy,
                   sick, labelhealthy, labelsick, labelall, k, scrapedWhole, panicMsg,
                   readVars>>

\* main, lines 250 and 254: the healthy series is set.
SetHealthy ==
    /\ pc = "set_healthy"
    /\ sleptFor' = 0
    /\ IF Grouped
       THEN \E kk \in pending :
               /\ k' = kk
               /\ prombackends' = GaugeSet(prombackends, Series("healthy", kk),
                                           MapGet(labelhealthy, kk))
       ELSE /\ k' = k
            /\ prombackends' = GaugeSet(prombackends, Series("healthy", ""), healthy)
    /\ pc' = "set_sick"
    /\ UNCHANGED <<first, connVars, config, handshakeVars, pollVars, resp, healthy, sick,
                   labelhealthy, labelsick, labelall, pending, published, scrapedWhole,
                   panicMsg, readVars>>

\* main, lines 251 and 255: the sick series is set.
SetSick ==
    /\ pc = "set_sick"
    /\ sleptFor' = 0
    /\ prombackends' = GaugeSet(prombackends, Series("sick", k),
                                IF Grouped THEN MapGet(labelsick, k) ELSE sick)
    /\ pending' = pending \ {k}
    /\ Published(prombackends', pending')
    /\ UNCHANGED <<first, connVars, config, handshakeVars, err, listingCode, resp, healthy,
                   sick, labelhealthy, labelsick, labelall, k, scrapedWhole, panicMsg,
                   readVars>>

\* main, lines 258-260: the interval sleep; the cycle's locals end with the
\* iteration.
IntervalSleep ==
    /\ pc = "interval_sleep"
    /\ sleptFor' = DefaultInterval
    /\ resp' = <<>> /\ healthy' = 0 /\ sick' = 0
    /\ labelhealthy' = EmptyMap /\ labelsick' = EmptyMap /\ labelall' = EmptyMap
    /\ pending' = {} /\ k' = ""
    /\ err' = FALSE /\ listingCode' = 0 /\ pubCount' = 0
    /\ pc' = "poll_send"
    /\ UNCHANGED <<first, connVars, config, handshakeVars, gaugeVars, scrapedWhole,
                   panicMsg, readVars>>

\* main, line 262: conn.Close() after the inner loop.
CloseConn ==
    /\ pc = "close"
    /\ sleptFor' = 0
    /\ open' = open \ {conn}
    /\ pc' = "loop_top"
    /\ UNCHANGED <<first, conn, dialled, config, handshakeVars, pollVars, cycleVars,
                   gaugeVars, scrapedWhole, panicMsg, readVars>>

\* httpServer: the metrics handler collects the gauge vector.
Scrape ==
    /\ pc # "crashed"
    /\ scrapedWhole' = (prombackends = published)
    /\ UNCHANGED <<pc, first, connVars, sleptFor, config, handshakeVars, pollVars,
                   cycleVars, gaugeVars, panicMsg, readVars>>

Main ==
    \/ LoopTop
    \/ Dial
    \/ Greeting
    \/ Auth
    \/ PollSend
    \/ PollRead
    \/ ResetStep
    \/ SetHealthy
    \/ SetSick
    \/ IntervalSleep
    \/ CloseConn

Next == Main \/ Scrape

Spec == Init /\ [][Next]_vars

(***************************************************************************)
(* ReadResponse alone, on every frame within the bounds.                   *)
(***************************************************************************)
Bytes == {"a", NL}

ReadFrames ==
    {[scanErr |-> e, headers |-> IF e THEN h ELSE 2, status |-> st, length |-> len,
      data |-> d, readErr |-> re] :
        e \in BOOLEAN, h \in {0, 1}, st \in {AuthPromptCode, OkCode},
        len \in (-2)..MaxLen, re \in BOOLEAN,
        d \in UNION {[1..n -> Bytes] : n \in 0..(MaxLen + 1)}}

InitRead ==
    /\ pc = "loop_top"
    /\ first = TRUE
    /\ conn = 0
    /\ open = {}
    /\ dialled = FALSE
    /\ sleptFor = 0
    /\ directorRegexp = ""
    /\ resetBackends = FALSE
    /\ challenge = <<>>
    /\ lastSent = NoLine
    /\ greeted = FALSE
    /\ authed = FALSE
    /\ authsSent = 0
    /\ listSent = FALSE
    /\ code = 0
    /\ greetResp = <<>>
    /\ err = FALSE
    /\ listingCode = 0
    /\ pubCount = 0
    /\ resp = <<>>
    /\ healthy = 0
    /\ sick = 0
    /\ labelhealthy = EmptyMap
    /\ labelsick = EmptyMap
    /\ labelall = EmptyMap
    /\ pending = {}
    /\ k = ""
    /\ prombackends = EmptyMap
    /\ published = EmptyMap
    /\ scrapedWhole = TRUE
    /\ panicMsg = ""
    /\ rrFrame \in ReadFrames
    /\ rrCalled = FALSE
    /\ rrOut = Failure
    /\ cmdWriteOk \in BOOLEAN
    /\ cmdCalled = FALSE
    /\ cmdOut = NotCalled

\* One call of ReadResponse on a connection that delivers rrFrame.
CallReadResponse ==
    /\ ~rrCalled
    /\ rrCalled' = TRUE
    /\ rrOut' = ReadResponse(rrFrame)
    /\ UNCHANGED <<mainVars, rrFrame, cmdWriteOk, cmdCalled, cmdOut>>

\* One call of CommandForSuccess on a connection whose write succeeds or not
\* and that then delivers rrFrame.
CallCommandForSuccess ==
    /\ ~cmdCalled
    /\ cmdCalled' = TRUE
    /\ cmdOut' = CommandForSuccess(cmdWriteOk, rrFrame)
    /\ UNCHANGED <<mainVars, rrFrame, rrCalled, rrOut, cmdWriteOk>>

NextRead == CallReadResponse \/ CallCommandForSuccess

SpecRead == InitRead /\ [][NextRead]_vars

(***************************************************************************)
(* What the properties below read off a listing body, stated without the   *)
(* operators of the parser.                                                *)
(***************************************************************************)
\* The lines of the body other than header lines.
IsHeader(t) ==
    Len(t) >= 4 /\ t[1] = "Backend" /\ t[2] = SP /\ t[3] = "name" /\ t[4] = SP

Words(t) == SelectSeq(t, LAMBDA c : c # SP)

Records(body) == SelectSeq(ScanLines(body, <<>>), LAMBDA t : ~IsHeader(t))

RecordIdx(body) == 1..Len(Records(body))

\* The rule of the specification, for a record of at least three fields;
\* a shorter record is sick.
HealthyRecord(t) ==
    LET w == Words(t) IN Len(w) >= 3 /\ w[2] # "sick" /\ w[3] = "Healthy"

ShortRecord(t) == Len(Words(t)) < 3

\* The label the README gives a backend name under each pattern.
ExpectedLabel(re, name) ==
    IF re = ReSuffix /\ name = "web1_fe" THEN "fe" ELSE "unknown"

LabelOfRecord(re, t) == ExpectedLabel(re, Words(t)[1])

CountOf(body, Test(_)) == Cardinality({i \in RecordIdx(body) : Test(Records(body)[i])})

Aggregated == pc \in {"reset", "set_healthy", "set_sick", "interval_sleep"}

CyclePublished == pc = "interval_sleep"

RECURSIVE SumOver(_, _)
SumOver(m, keys) ==
    IF keys = {} THEN 0
    ELSE LET x == CHOOSE y \in keys : TRUE IN m[x] + SumOver(m, keys \ {x})

MapSum(m) == SumOver(m, DOMAIN m)

(***************************************************************************)
(* C1: no backend.list is written on a connection unless, on that          *)
(* connection, the greeting was read with code 107 and the auth command    *)
(* returned 200; main is in the polling loop only on such a connection.    *)
(***************************************************************************)
C1_PollOnlyAfterAuth ==
    /\ listSent => greeted /\ authed /\ authsSent >= 1
    /\ pc \in {"poll_send", "poll_read", "reset", "set_healthy", "set_sick", "interval_sleep"}
          => greeted /\ authed /\ conn \in open

\* A backend.list written on a second connection, the first one's handshake
\* having failed.
C1_Witness == listSent /\ conn = 2 /\ lastSent = [conn |-> 2, line |-> <<"backend.list", NL>>]

(***************************************************************************)
(* C2: whenever main is about to dial and has dialled before, its latest   *)
(* step was the 5-second sleep; only the first dial goes without it.       *)
(***************************************************************************)
C2_DialAfterDelay ==
    pc = "dial" => IF dialled THEN sleptFor = RateLimitSeconds ELSE sleptFor = 0

\* About to dial again with a connection of a failed handshake behind.
C2_Witness == pc = "dial" /\ dialled /\ sleptFor = RateLimitSeconds /\ open # {}

(***************************************************************************)
(* C3: at most one connection is open at any time, and none is open when   *)
(* main goes back to connect.                                              *)
(***************************************************************************)
C3_AtMostOneOpen ==
    /\ Cardinality(open) <= 1
    /\ pc \in {"loop_top", "dial"} => open = {}

(***************************************************************************)
(* C4: every collection by the metrics handler reads the gauge vector as   *)
(* a completed poll cycle left it.                                         *)
(***************************************************************************)
C4_ScrapeSeesWholeCycle == scrapedWhole

(***************************************************************************)
(* C5: a listing with a line of fewer than three fields does not end the   *)
(* process: it is aggregated with every such line counted as sick.         *)
(***************************************************************************)
C5_ShortLineCountedSick ==
    (\E i \in RecordIdx(resp) : ShortRecord(Records(resp)[i]))
        => /\ panicMsg = ""
           /\ Aggregated =>
                IF Grouped
                THEN MapSum(labelsick) = CountOf(resp, LAMBDA t : ~HealthyRecord(t))
                ELSE sick = CountOf(resp, LAMBDA t : ~HealthyRecord(t))

(***************************************************************************)
(* C6: once a listing of three-field records is aggregated, the healthy    *)
(* count is the number of records whose status is not "sick" and whose     *)
(* health is "Healthy", and the sick count is the number of all others,    *)
(* with and without a director pattern.                                    *)
(***************************************************************************)
C6_HealthyIffBothSignals ==
    (Aggregated /\ \A i \in RecordIdx(resp) : ~ShortRecord(Records(resp)[i]))
        => IF Grouped
           THEN /\ MapSum(labelhealthy) = CountOf(resp, HealthyRecord)
                /\ MapSum(labelsick) = CountOf(resp, LAMBDA t : ~HealthyRecord(t))
           ELSE /\ healthy = CountOf(resp, HealthyRecord)
                /\ sick = CountOf(resp, LAMBDA t : ~HealthyRecord(t))

\* A listing whose records all have health "Healthy" and status "sick" was
\* aggregated: the second signal alone does not make a record healthy.
C6_Witness ==
    /\ Aggregated
    /\ RecordIdx(resp) # {}
    /\ \A i \in RecordIdx(resp) :
          LET w == Words(Records(resp)[i]) IN Len(w) = 3 /\ w[2] = "sick" /\ w[3] = "Healthy"

LabelsExported == {s[2] : s \in DOMAIN prombackends}

C8_ResetLeavesCycleLabels ==
    (CyclePublished /\ Grouped /\ resetBackends) => LabelsExported = DOMAIN labelall

C8_StaleSeriesKept ==
    (Grouped /\ ~resetBackends)
        => \A s \in DOMAIN prombackends :
              s[2] \notin DOMAIN labelall'
                  => s \in DOMAIN prombackends' /\ prombackends'[s] = prombackends[s]

C8_ResetSemantics == []C8_ResetLeavesCycleLabels /\ [][C8_StaleSeriesKept]_vars

\* Without reset-on-scan, a cycle is published and a label it does not have
\* is still exported with both series.
C8_Witness ==
    /\ CyclePublished /\ Grouped /\ ~resetBackends
    /\ \E l \in LabelsExported :
          /\ l \notin DOMAIN labelall
          /\ {<<"healthy", l>>, <<"sick", l>>} \subseteq DOMAIN prombackends

(***************************************************************************)
(* C9: with a director pattern, a published cycle has, for the label of    *)
(* each of its records, a healthy and a sick series holding the number of  *)
(* its records of that label and state (0 when there is none); the label   *)
(* is "unknown" for a name the pattern does not match and for a pattern    *)
(* without a capture group.                                                *)
(***************************************************************************)
C9_BothSeriesPerLabel ==
    (CyclePublished /\ Grouped)
        => \A i \in RecordIdx(resp) :
              LET l == LabelOfRecord(directorRegexp, Records(resp)[i]) IN
              /\ {<<"healthy", l>>, <<"sick", l>>} \subseteq DOMAIN prombackends
              /\ prombackends[<<"healthy", l>>] =
                    CountOf(resp, LAMBDA t : LabelOfRecord(directorRegexp, t) = l
                                             /\ HealthyRecord(t))
              /\ prombackends[<<"sick", l>>] =
                    CountOf(resp, LAMBDA t : LabelOfRecord(directorRegexp, t) = l
                                             /\ ~HealthyRecord(t))

\* The pattern without a group matched web1_fe, which was published as
\* "unknown" with a sick count of 0.
C9_Witness ==
    /\ CyclePublished /\ directorRegexp = ReNoGroup
    /\ \E i \in RecordIdx(resp) : Words(Records(resp)[i])[1] = "web1_fe"
    /\ <<"sick", "unknown">> \in DOMAIN prombackends
    /\ prombackends[<<"sick", "unknown">>] = 0

(***************************************************************************)
(* C10: ReadResponse either fails with code -1 and no body, which it does  *)
(* when the header does not scan, the read fails or the bytes read are not *)
(* length+1, or returns the header's status with the first length bytes.   *)
(***************************************************************************)
C10_FailsOrReturnsWholeBody ==
    rrCalled =>
        /\ rrOut.panic = ""
        /\ IF \/ rrFrame.scanErr
              \/ rrFrame.readErr
              \/ Len(rrFrame.data) < rrFrame.length + 1
           THEN rrOut.code = FailCode /\ rrOut.isNil
           ELSE /\ ~rrOut.isNil
                /\ rrOut.code = rrFrame.status
                /\ Len(rrOut.body) = rrFrame.length
                /\ rrOut.body = SubSeq(rrFrame.data, 1, rrFrame.length)

\* For a header that declares a length of at least 0, the same holds.
C10_HoldsForDeclaredLength == rrFrame.length >= 0 => C10_FailsOrReturnsWholeBody

(***************************************************************************)
(* C11: on one connection at most one auth command is written, and it is   *)
(* written before any backend.list: the count of auth commands of the      *)
(* current connection never exceeds 1, it is 1 once a backend.list went    *)
(* out, it goes up only in the handshake, by a line that starts with auth  *)
(* on the current connection, and it starts over only with a new dial.     *)
(***************************************************************************)
C11_AtMostOneAuth ==
    /\ authsSent <= 1
    /\ listSent => authsSent = 1

C11_AuthOnlyInHandshake ==
    /\ authsSent' > authsSent
          => /\ pc = "auth" /\ authsSent = 0 /\ ~listSent
             /\ lastSent'.conn = conn /\ Head(lastSent'.line) = "auth"
    /\ authsSent' < authsSent => pc = "dial"
    /\ pc \in {"poll_send", "poll_read", "reset", "set_healthy", "set_sick", "interval_sleep"}
          => authsSent' = authsSent

C11_HandshakeOnce == []C11_AtMostOneAuth /\ [][C11_AuthOnlyInHandshake]_vars

\* About to send another backend.list on a connection that has had one auth.
C11_Witness == pc = "poll_send" /\ listSent /\ authsSent = 1 /\ authed

(***************************************************************************)
(* C12: no connection-level error ends the process: the process is never   *)
(* ended by a panic of ReadResponse on a response header.                  *)
(***************************************************************************)
C12_NoExitOnConnectionError ==
    panicMsg \notin {"makeslice: len out of range", "slice bounds out of range"}

(***************************************************************************)
(* C13: once Send of backend.list failed or the listing was read with a    *)
(* code other than 200, main is closing the connection or back at the head *)
(* of the outer loop; until the next dial nothing is written, main only    *)
(* moves from closing to the loop head to the dial, and a connection that  *)
(* was just dialled has had neither greeting nor auth nor backend.list.    *)
(***************************************************************************)
PollFailed == err \/ listingCode \notin {0, OkCode}

C13_FailedPollDisconnects ==
    /\ PollFailed => pc \in {"close", "loop_top", "dial"}
    /\ pc = "greeting" => ~greeted /\ ~authed /\ authsSent = 0 /\ ~listSent

C13_NothingSentUntilRedial ==
    PollFailed
        => /\ lastSent' = lastSent
           /\ pc = "close" => pc' \in {"close", "loop_top"}
           /\ pc = "loop_top" => pc' \in {"loop_top", "dial"}
           /\ pc = "dial" => pc' \in {"dial", "loop_top", "greeting"}
           /\ pc' \in {"loop_top", "dial"} => conn \notin open'

C13_PollErrorReconnects == []C13_FailedPollDisconnects /\ [][C13_NothingSentUntilRedial]_vars

\* A listing read failed with code -1; the connection is closed and main is
\* about to dial again.
C13_Witness == pc = "dial" /\ listingCode = FailCode /\ conn \notin open /\ listSent

(***************************************************************************)
(* C14: after a greeting whose code is not 107, no auth and no             *)
(* backend.list is written on that connection and main is back at the head *)
(* of the outer loop; after an auth that did not return success, there was *)
(* one auth on that connection, no backend.list, and main is back at the   *)
(* head of the outer loop (or the process ended); in both cases nothing is *)
(* written before the next dial.                                           *)
(***************************************************************************)
GreetingRefused == code \notin {0, AuthPromptCode}

AuthRefused == authsSent >= 1 /\ ~authed

C14_FailedHandshakeState ==
    /\ GreetingRefused => authsSent = 0 /\ ~listSent /\ pc \in {"loop_top", "dial"}
    /\ AuthRefused => authsSent = 1 /\ ~listSent /\ pc \in {"loop_top", "dial", "crashed"}

C14_FailedHandshakeSilent ==
    (GreetingRefused \/ AuthRefused) => lastSent' = lastSent

C14_FailedHandshakeAbandons == []C14_FailedHandshakeState /\ [][C14_FailedHandshakeSilent]_vars

\* On a second connection the auth was refused; main is about to dial again.
C14_Witness ==
    pc = "dial" /\ conn = 2 /\ code = AuthPromptCode /\ authsSent = 1 /\ ~authed

(***************************************************************************)
(* C15: the step that writes auth writes, on the current connection, the   *)
(* line auth <hex> where <hex> is the hex digest of c, newline, the        *)
(* secret, c, newline, and c is the first line of the body of the 107      *)
(* greeting read on the current connection.                                *)
(***************************************************************************)
C15_AuthLine ==
    authsSent' = authsSent + 1
        => /\ code = AuthPromptCode
           /\ \E c \in Challenges :
                 /\ Len(greetResp) >= 2 /\ greetResp[1] = c /\ greetResp[2] = NL
                 /\ lastSent' = [conn |-> conn,
                                 line |-> <<"auth", SP,
                                            HexSha256(<<c, NL>> \o Secret \o <<c, NL>>), NL>>]

C15_AuthArgument == [][C15_AuthLine]_vars

\* The auth of a second connection went out with that connection's
\* challenge.
C15_Witness ==
    /\ authsSent = 1 /\ conn = 2
    /\ lastSent = [conn |-> 2,
                   line |-> <<"auth", SP,
                              HexSha256(<<"ch2", NL>> \o Secret \o <<"ch2", NL>>), NL>>]

(***************************************************************************)
(* C16: at the interval sleep the listing read last was answered with 200  *)
(* and published in whole exactly once; while it is being published it was *)
(* not published yet; a backend.list is written only from the position     *)
(* before the read, and main comes back to that position on the same       *)
(* connection only from the interval sleep, having slept the interval; the *)
(* published vector changes only when a cycle completes.                   *)
(***************************************************************************)
C16_PublishedOnceAtSleep ==
    /\ pc = "interval_sleep"
          => pubCount = 1 /\ listingCode = OkCode /\ published = prombackends
    /\ pc \in {"reset", "set_healthy", "set_sick"} => pubCount = 0 /\ listingCode = OkCode
    /\ pc = "poll_send" /\ listSent => sleptFor = DefaultInterval /\ pubCount = 0

C16_CycleOrder ==
    /\ (pc' = "poll_read" /\ pc # "poll_read")
          => pc = "poll_send" /\ lastSent' = [conn |-> conn, line |-> <<"backend.list", NL>>]
    /\ (pc' = "poll_send" /\ pc # "poll_send" /\ listSent)
          => pc = "interval_sleep" /\ pubCount = 1 /\ sleptFor' = DefaultInterval
    /\ pubCount' > pubCount => pc' = "interval_sleep" /\ pubCount' = 1
    /\ published' # published => pc' = "interval_sleep"

C16_SequentialPolling == []C16_PublishedOnceAtSleep /\ [][C16_CycleOrder]_vars

\* After the interval sleep, about to send the next backend.list on the same
\* connection, the previous listing's counts being exported.
C16_Witness ==
    /\ pc = "poll_send" /\ listSent /\ sleptFor = DefaultInterval
    /\ published = prombackends /\ DOMAIN published # {}

(***************************************************************************)
(* C17: CommandForSuccess returns true exactly when the write succeeded    *)
(* and the connection then delivers a whole response with status 200; when *)
(* the write fails it returns false and has read nothing.                  *)
(***************************************************************************)
WholeResponse(f) ==
    ~f.scanErr /\ f.headers = 2 /\ ~f.readErr /\ f.length >= 0 /\ Len(f.data) >= f.length + 1

C17_TrueIffSentAndOk ==
    cmdCalled
        => /\ cmdOut.ok <=> (cmdWriteOk /\ WholeResponse(rrFrame) /\ rrFrame.status = OkCode)
           /\ ~cmdWriteOk => ~cmdOut.ok /\ ~cmdOut.read
           /\ cmdWriteOk => cmdOut.read

\* The write failed while a whole response with status 200 was there to read.
C17_Witness ==
    /\ cmdCalled /\ ~cmdWriteOk /\ ~cmdOut.ok /\ ~cmdOut.read
    /\ WholeResponse(rrFrame) /\ rrFrame.status = OkCode

(***************************************************************************)
(* C18: the gauge vector is written or cleared only by the steps that      *)
(* publish a listing, and main is at those steps only when, on a greeted   *)
(* and authenticated connection, backend.list was sent without error and   *)
(* answered with 200; every other step of main leaves the vector, and what *)
(* the last completed cycle left, as they are.                             *)
(***************************************************************************)
Publishing == pc \in {"reset", "set_healthy", "set_sick"}

C18_PublishOnlyAfterOk ==
    (Publishing \/ pc = "interval_sleep")
        => listingCode = OkCode /\ ~err /\ listSent /\ greeted /\ authed

C18_FailureLeavesGauges ==
    /\ prombackends' # prombackends => Publishing
    /\ published' # published => Publishing
    /\ PollFailed \/ GreetingRefused \/ AuthRefused \/ pc = "crashed"
          => prombackends' = prombackends

C18_FailedCycleKeepsGauges == []C18_PublishOnlyAfterOk /\ [][C18_FailureLeavesGauges]_vars

\* With reset-on-scan, after a listing answered with another code than 200,
\* the counts of the last completed cycle are still exported.
C18_Witness ==
    /\ resetBackends /\ pc = "loop_top" /\ listingCode \notin {0, OkCode}
    /\ DOMAIN prombackends # {} /\ prombackends = published

(***************************************************************************)
(* C19: without a director pattern, when a cycle is published the gauge    *)
(* vector holds exactly the series healthy and sick, with the number of    *)
(* healthy records and the number of other records of that cycle's body;   *)
(* both are 0 for a body of the header line alone.                         *)
(***************************************************************************)
C19_BothCountsWritten ==
    (CyclePublished /\ ~Grouped)
        => /\ DOMAIN prombackends = {<<"healthy">>, <<"sick">>}
           /\ prombackends[<<"healthy">>] = CountOf(resp, HealthyRecord)
           /\ prombackends[<<"sick">>] = CountOf(resp, LAMBDA t : ~HealthyRecord(t))

\* A body of the header line alone was published as 0 and 0, without
\* reset-on-scan.
C19_Witness ==
    /\ CyclePublished /\ ~Grouped /\ ~resetBackends
    /\ resp = JoinLines(<<HeaderLine>>)
    /\ prombackends = [s \in {<<"healthy">>, <<"sick">>} |-> 0]

====
